---- MODULE Spec2Model ----
(***************************************************************************)
(* A model of the double-int crate (src/lib.rs): the DoubleInt newtype     *)
(* over i64, its conversions, its comparisons with the primitive integer   *)
(* types and its serde implementations.                                    *)
(*                                                                         *)
(* The constants of the crate are near 2^53 and its comparisons involve    *)
(* 64 and 128 bit integers, so integers are not modelled by TLC's 32 bit   *)
(* numbers.  An integer is its two's complement representation: a          *)
(* little-endian function from 1..NBytes to bytes.  NBytes is larger than  *)
(* the 16 bytes of a u128 or an i128, so every value of every primitive    *)
(* type is represented exactly, and an `as` cast is what it is in Rust:    *)
(* truncation to the width of the target followed by sign or zero          *)
(* extension.                                                              *)
(***************************************************************************)
EXTENDS Integers, Sequences, FiniteSets, TLC

\* Bytes in the representation of a mathematical integer (more than 16).
NBytes == 17

\* Inputs are taken at distance at most MaxOffset from 0 and from +-2^e.
MaxOffset == 5

(***************************************************************************)
(* Two's complement arithmetic on byte vectors.                            *)
(***************************************************************************)
Idx == 1..NBytes

Zero == [i \in Idx |-> 0]

\* The integer n, for 0 <= n < 256.
Small(n) == [i \in Idx |-> IF i = 1 THEN n ELSE 0]

\* 2^e, as in 2_i128.pow(53).
Pow2(e) == [i \in Idx |-> IF i = (e \div 8) + 1 THEN 2 ^ (e % 8) ELSE 0]

IsNeg(a) == a[NBytes] >= 128

RECURSIVE Carry(_, _, _)
Carry(a, b, i) ==
    IF i = 0 THEN 0 ELSE (a[i] + b[i] + Carry(a, b, i - 1)) \div 256

Add(a, b) == [i \in Idx |-> (a[i] + b[i] + Carry(a, b, i - 1)) % 256]

Neg(a) == Add([i \in Idx |-> 255 - a[i]], Small(1))

Sub(a, b) == Add(a, Neg(b))

RECURSIVE LtFrom(_, _, _)
LtFrom(a, b, i) ==
    IF i = 0 THEN FALSE
    ELSE IF a[i] # b[i] THEN a[i] < b[i]
    ELSE LtFrom(a, b, i - 1)

\* a < b, as integers.
Lt(a, b) == IF IsNeg(a) # IsNeg(b) THEN IsNeg(a) ELSE LtFrom(a, b, NBytes)

Le(a, b) == ~Lt(b, a)

(***************************************************************************)
(* The primitive integer types.                                            *)
(***************************************************************************)
NarrowTypes == {"u8", "u16", "u32", "i8", "i16", "i32"}

WideTypes == {"u64", "u128", "i128"}

IntTypes == NarrowTypes \cup WideTypes \cup {"i64"}

SignedTypes == {"i8", "i16", "i32", "i64", "i128"}

Bits ==
    [u8 |-> 8, u16 |-> 16, u32 |-> 32, u64 |-> 64, u128 |-> 128,
     i8 |-> 8, i16 |-> 16, i32 |-> 32, i64 |-> 64, i128 |-> 128]

\* `a as ty`: keep the low bytes of a, then sign extend (signed ty) or zero
\* extend (unsigned ty).
As(ty, a) ==
    LET n == Bits[ty] \div 8
        ext == IF ty \in SignedTypes /\ a[n] >= 128 THEN 255 ELSE 0
    IN  [i \in Idx |-> IF i <= n THEN a[i] ELSE ext]

\* a is a value of type ty.
InType(ty, a) == As(ty, a) = a

(***************************************************************************)
(* DoubleInt and its constants.                                            *)
(***************************************************************************)
\* MIN without its + 1.
MIN_without_plus_one == Neg(Pow2(53))

MIN == Add(Neg(Pow2(53)), Small(1))

\* MAX without its - 1.
MAX_without_minus_one == Pow2(53)

MAX == Sub(Pow2(53), Small(1))

UMAX == Sub(Pow2(53), Small(1))

\* pub const fn as_i64(self) -> i64
as_i64(self) == self

\* from with a zero extension: Self(val as u32 as i64).
from_impl_zero_extended(ty, val) == As("i64", As("u32", val))

\* impl From<$ty> for DoubleInt, for the six narrow types: Self(val as i64).
from_impl(ty, val) == As("i64", val)

\* #[derive(Default)]: the default of the i64 field.
default == Zero

\* #[derive(PartialEq)]: DoubleInt == DoubleInt compares the fields.
eq_self(self, other) == self = other

\* infallible_eq_impls!($ty): self.0 == *val as i64
eq_narrow(self, ty, val) == self = As("i64", val)

\* impl PartialEq<i64>: self.0 == *val
eq_i64(self, val) == self = val

\* The first arm of the match of the wide comparisons, a half-open range
\* pattern `DoubleInt::UMAX..` (`DoubleInt::MAX..` for i128): it matches the
\* values from the constant upwards.
range_guard(ty, val) ==
    CASE ty = "u64" -> Le(UMAX, As("u128", val))
      [] ty = "u128" -> Le(UMAX, val)
      [] ty = "i128" -> Le(MAX, val)

\* impl PartialEq<u64>, PartialEq<u128>, PartialEq<i128>: false when the first
\* arm matches, and self.0 == *val as i64 otherwise.
eq_wide(self, ty, val) ==
    IF range_guard(ty, val) THEN FALSE ELSE self = As("i64", val)

\* The implementations of PartialEq<Rhs> for Self, as pairs <<Self, Rhs>>.
PartialEqImpls ==
    {<<"DoubleInt", "DoubleInt">>} \cup {<<"DoubleInt", ty>> : ty \in IntTypes}

\* self == val, for val of type ty.
eq(self, ty, val) ==
    CASE ty \in NarrowTypes -> eq_narrow(self, ty, val)
      [] ty = "i64" -> eq_i64(self, val)
      [] ty \in WideTypes -> eq_wide(self, ty, val)

(***************************************************************************)
(* serde.  A deserializer holds one token: an integer literal of any size  *)
(* or something that is no integer.                                        *)
(***************************************************************************)
Ok(v) == [ok |-> TRUE, val |-> v]

Err(e) == [ok |-> FALSE, err |-> e]

IntToken(v) == [kind |-> "int", val |-> v]

OtherTokens == {[kind |-> k, val |-> Zero] : k \in {"float", "string", "bool"}}

\* i64::deserialize(deserializer): the token's value when it is an integer
\* that fits an i64, and the deserializer's own error otherwise.
i64_deserialize(tok) ==
    IF tok.kind = "int" /\ InType("i64", tok.val)
    THEN Ok(tok.val)
    ELSE Err([kind |-> "i64", unexpected |-> tok])

\* serde::de::Error::invalid_value(Unexpected::Signed(val), &expected)
invalid_value(val, expected) ==
    [kind |-> "invalid_value", unexpected |-> val, expected |-> expected]

ExpectedLarger == "integer larger than -9007199254740991 / -(2^53) + 1"

ExpectedSmaller == "integer smaller than 9007199254740991 / (2^53) - 1"

\* The arms with the upper guard written `>=`.
arms_tried_upper_inclusive(r) ==
    IF ~r.ok THEN <<"Err">>
    ELSE IF Lt(As("i128", r.val), MIN) THEN <<"Err", "lt_MIN">>
    ELSE IF Le(MAX, As("i128", r.val)) THEN <<"Err", "lt_MIN", "gt_MAX">>
    ELSE <<"Err", "lt_MIN", "gt_MAX", "Ok">>

\* The arms of the match of deserialize that are tried, in order, on the
\* result r of i64::deserialize; the last one is the arm taken.
arms_tried(r) ==
    IF ~r.ok THEN <<"Err">>
    ELSE IF Lt(As("i128", r.val), MIN) THEN <<"Err", "lt_MIN">>
    ELSE IF Lt(MAX, As("i128", r.val)) THEN <<"Err", "lt_MIN", "gt_MAX">>
    ELSE <<"Err", "lt_MIN", "gt_MAX", "Ok">>

\* deserialize with the error of i64::deserialize replaced by an error of its
\* own: Err(_) => Err(invalid_value(Unexpected::Signed(0), ..)).
deserialize_own_error(tok) ==
    LET r == i64_deserialize(tok)
    IN  IF ~r.ok THEN Err(invalid_value(Zero, ExpectedLarger))
        ELSE IF Lt(As("i128", r.val), MIN)
        THEN Err(invalid_value(r.val, ExpectedLarger))
        ELSE IF Lt(MAX, As("i128", r.val))
        THEN Err(invalid_value(r.val, ExpectedSmaller))
        ELSE Ok(r.val)

\* impl Deserialize for DoubleInt
deserialize(tok) ==
    LET r == i64_deserialize(tok)
        arms == arms_tried(r)
        arm == arms[Len(arms)]
    IN  CASE arm = "Err" -> Err(r.err)
          [] arm = "lt_MIN" -> Err(invalid_value(r.val, ExpectedLarger))
          [] arm = "gt_MAX" -> Err(invalid_value(r.val, ExpectedSmaller))
          [] arm = "Ok" -> Ok(r.val)

\* serialize through a narrower integer: serializer.serialize_i32(self.0 as i32).
serialize_i32(self) == Ok(IntToken(As("i32", self)))

\* impl Serialize for DoubleInt: serializer.serialize_i64(self.0)
serialize(self) == Ok(IntToken(As("i64", self)))

(***************************************************************************)
(* Inputs.                                                                 *)
(***************************************************************************)
\* The widths of the types and of the double's mantissa, a wrap of the
\* 64 bit width, and the exponent of a documented example (2^55).
Exponents == {7, 8, 15, 16, 31, 32, 53, 55, 63, 64, 127, 128}

Offset(k) == IF k >= 0 THEN Small(k) ELSE Neg(Small(-k))

Offsets == {Offset(k) : k \in -MaxOffset..MaxOffset}

Integers_ ==
    Offsets
    \cup {Add(Pow2(e), o) : e \in Exponents, o \in Offsets}
    \cup {Add(Neg(Pow2(e)), o) : e \in Exponents, o \in Offsets}

ValuesOf == [ty \in IntTypes |-> {v \in Integers_ : InType(ty, v)}]

Tokens == {IntToken(v) : v \in Integers_} \cup OtherTokens

(***************************************************************************)
(* The state: the DoubleInt at hand, and the operation that has just       *)
(* returned with its inputs and its result (NoCall when none has).  The    *)
(* operations are pure and return by value: the caller takes operations    *)
(* one at a time, and lets go of a result before the next call.            *)
(***************************************************************************)
VARIABLES d, last

vars == <<d, last>>

NoCall == [op |-> "none"]

Init ==
    /\ d = default
    /\ last = NoCall

\* DoubleInt::default()
Default ==
    /\ last = NoCall
    /\ d' = default
    /\ last' = [op |-> "default"]

\* DoubleInt::from(val), for val of a narrow type ty.
From ==
    /\ last = NoCall
    /\ \E ty \in NarrowTypes : \E val \in ValuesOf[ty] :
        /\ d' = from_impl(ty, val)
        /\ last' = [op |-> "from", ty |-> ty, val |-> val]

\* DoubleInt::deserialize(deserializer); the value at hand is replaced only
\* by a value that was returned.
Deserialize ==
    /\ last = NoCall
    /\ \E tok \in Tokens :
        LET res == deserialize(tok)
        IN  /\ d' = IF res.ok THEN res.val ELSE d
            /\ last' = [op |-> "deserialize", tok |-> tok, res |-> res,
                        arms |-> arms_tried(i64_deserialize(tok))]

\* d.serialize(serializer)
Serialize ==
    /\ last = NoCall
    /\ last' = [op |-> "serialize", res |-> serialize(d)]
    /\ UNCHANGED d

\* Deserialization of what the serialization that has just returned wrote.
RoundTrip ==
    /\ last.op = "serialize"
    /\ last.res.ok
    /\ LET res == deserialize(last.res.val)
       IN  /\ last' = [op |-> "roundtrip", orig |-> d, res |-> res]
           /\ d' = IF res.ok THEN res.val ELSE d

\* d.as_i64()
AsI64 ==
    /\ last = NoCall
    /\ last' = [op |-> "as_i64", res |-> as_i64(d)]
    /\ UNCHANGED d

\* d == val, for val of type ty; guard tells whether the first arm of a wide
\* comparison matched.
Compare ==
    /\ last = NoCall
    /\ \E ty \in IntTypes : \E val \in ValuesOf[ty] :
        /\ <<"DoubleInt", ty>> \in PartialEqImpls
        /\ last' = [op |-> "eq", ty |-> ty, val |-> val,
                    guard |-> ty \in WideTypes /\ range_guard(ty, val),
                    res |-> eq(d, ty, val)]
        /\ UNCHANGED d

\* The caller lets go of the result.
Drop ==
    /\ last # NoCall
    /\ last' = NoCall
    /\ UNCHANGED d

Next ==
    \/ Default
    \/ From
    \/ Deserialize
    \/ Serialize
    \/ RoundTrip
    \/ AsI64
    \/ Compare
    \/ Drop

Spec == Init /\ [][Next]_vars

(***************************************************************************)
(* The properties.  The bounds they state are written out, -(2^53) + 1 and *)
(* 2^53 - 1, and not taken from the constants of the code.                 *)
(***************************************************************************)
SafeMin == Neg(Sub(Pow2(53), Small(1)))

SafeMax == Sub(Pow2(53), Small(1))

InSafeRange(v) == Le(SafeMin, v) /\ Le(v, SafeMax)

\* The last operation deserialized an integer that fits an i64.
DeserializedI64 ==
    /\ last.op = "deserialize"
    /\ last.tok.kind = "int"
    /\ InType("i64", last.tok.val)

\* C1: the DoubleInt at hand, and every DoubleInt an operation returns, holds a
\* value v with -(2^53) + 1 <= v <= 2^53 - 1.
C1_RangeInvariant ==
    /\ InSafeRange(d)
    /\ last.op \in {"deserialize", "roundtrip"} /\ last.res.ok
        => InSafeRange(last.res.val)

\* C1: the largest value has been deserialized.
C1_Witness == last.op = "deserialize" /\ last.res.ok /\ d = SafeMax

\* C2: deserialization of an i64 v with -(2^53) + 1 <= v <= 2^53 - 1 succeeds,
\* and as_i64 of the result is v.
C2_InRangeAccepted ==
    DeserializedI64 /\ InSafeRange(last.tok.val)
        => last.res.ok /\ as_i64(last.res.val) = last.tok.val

\* C2: a boundary value has been deserialized.
C2_Witness ==
    DeserializedI64 /\ last.tok.val \in {SafeMin, SafeMax} /\ last.res.ok

\* C3: deserialization of an i64 v below -(2^53) + 1 or above 2^53 - 1 fails
\* with an invalid value error that carries v and the message of the bound
\* that v is beyond; no DoubleInt is returned.
C3_OutOfRangeRejected ==
    DeserializedI64 /\ ~InSafeRange(last.tok.val)
        => /\ ~last.res.ok
           /\ last.res.err =
                invalid_value(last.tok.val,
                              IF Lt(last.tok.val, SafeMin)
                              THEN ExpectedLarger ELSE ExpectedSmaller)

\* C3: the first value below the range has been rejected.
C3_Witness ==
    /\ DeserializedI64
    /\ last.tok.val = Sub(SafeMin, Small(1))
    /\ ~last.res.ok

\* C4: d == t is true exactly when d and t are the same integer, for t of
\* every primitive integer type.
C4_EqIsMathematicalEq ==
    last.op = "eq" => (last.res <=> d = last.val)

\* C5: DoubleInt::from(n), n of a narrow type, holds the integer n and is
\* equal to n in the comparison with n's type.
C5_FromNarrow ==
    last.op = "from"
        => /\ as_i64(d) = last.val
           /\ eq(d, last.ty, last.val)

\* C5: a negative i8 has been converted.
C5_Witness == last.op = "from" /\ last.ty = "i8" /\ IsNeg(last.val)

C7_DecodeErrorPassedThrough ==
    last.op = "deserialize"
        => LET r == i64_deserialize(last.tok)
           IN  /\ ~r.ok => last.res = Err(r.err) /\ last.arms = <<"Err">>
               /\ Len(last.arms) > 1 => r.ok

\* C7: a token that is no integer has been rejected.
C7_Witness ==
    last.op = "deserialize" /\ last.tok.kind = "float" /\ ~last.res.ok

\* C8: for every primitive integer type T, the comparison T == DoubleInt is
\* implemented, like DoubleInt == T.
C8_BothDirections ==
    last.op = "eq"
        => /\ <<"DoubleInt", last.ty>> \in PartialEqImpls
           /\ <<last.ty, "DoubleInt">> \in PartialEqImpls

\* C9: in a comparison with a u64, a u128 or an i128, the first arm answers
\* false exactly when the value is greater than 2^53 - 1, and the DoubleInt
\* holding 2^53 - 1 is equal to 2^53 - 1.
C9_GuardIsStrict ==
    last.op = "eq" /\ last.ty \in WideTypes
        => /\ last.guard <=> Lt(SafeMax, last.val)
           /\ d = SafeMax /\ last.val = SafeMax => last.res

\* C10: in a comparison with a u64, a u128 or an i128, a value that reaches
\* the cast to i64 fits an i64, and no value outside -(2^53) + 1 .. 2^53 - 1
\* is equal to a DoubleInt.
C10_CastNeverWraps ==
    last.op = "eq" /\ last.ty \in WideTypes
        => /\ ~last.guard => InType("i64", last.val)
           /\ last.res => InSafeRange(last.val)

====
